---- MODULE Spec2Model ----
(***************************************************************************)
(* Client-side continuous-batching orchestrator of lorax_server.batch:     *)
(* the batch admission function next_batch, the calibration call warmup,   *)
(* the entry constructor create_entry and the control loop of run.         *)
(***************************************************************************)
EXTENDS Integers, Sequences, FiniteSets, TLC

VARIABLES
    pc,            \* position of run(): which statement executes next
    args,          \* run()'s arguments (max_input_length, ...)
    dataset,       \* token counts of the input rows, in file order
    window_size,   \* info.window_size: <<>> (None) or <<w>>
    token_budget,  \* max_supported_total_tokens as returned by warmup
    entries,       \* the pending queue (list of Entry)
    ID,            \* the module-level counter _ID
    warmup_request,\* the WarmupRequest sent: <<>> or <<request>>
    batch,         \* run()'s local batch: <<>> (None) or <<b>>
    new_batch,     \* run()'s local new_batch: <<>> (None) or <<b>>
    cached_batch,  \* run()'s local cached_batch: <<>> or <<handle>>
    generations,   \* run()'s local generations
    batches,       \* run()'s local list batches
    outputs,       \* outputs: request id -> list of fragments
    engine,        \* server side: the batches being generated
    rpcs,          \* the RPCs issued so far, in order
    last,          \* the arguments and result of the last next_batch call
    returned       \* every Batch next_batch has returned, in order

vars == <<pc, args, dataset, window_size, token_budget, entries, ID,
          warmup_request, batch, new_batch, cached_batch, generations, batches,
          outputs, engine, rpcs, last, returned>>

(***************************************************************************)
(* Bounds of the model.                                                    *)
(***************************************************************************)
MaxRows == 3
MaxDecodeSteps == 2

InputLengths == {16, 17, 40}
MaxTotalTokensValues == {32}
MaxInputLengthValues == {16}
MaxBatchPrefillValues == {31, 64, 200}
TokenBudgetValues == {54, 124, 200}
\* the capacities the engine may report to Warmup
CapacityValues == {0, 54, 124, 200}
WindowSizeValues == {<<>>, <<24>>}

(***************************************************************************)
(* Program constants.                                                      *)
(***************************************************************************)
BLOCK_SIZE == 16

None == <<>>
Some(x) == <<x>>

\* outputs = defaultdict(list) (line 83)
NoOutputs == [k \in {} |-> <<>>]

Min(a, b) == IF a <= b THEN a ELSE b

RECURSIVE SumSeq(_)
SumSeq(s) == IF s = <<>> THEN 0 ELSE Head(s) + SumSeq(Tail(s))

SeqsUpTo(S, n) == UNION {[1..k -> S] : k \in 0..n}

(***************************************************************************)
(* create_entry: the Request of one input row and its measured length.     *)
(* The row's text is modelled by the row's number.                         *)
(***************************************************************************)
create_entry(inputs, input_length, max_input_length, max_total_tokens) ==
    LET effective_max_new_tokens == max_total_tokens - input_length
    IN [request |-> [id |-> 0,
                     inputs |-> inputs,
                     truncate |-> max_input_length,
                     stopping_parameters |->
                         [max_new_tokens |-> effective_max_new_tokens]],
        input_length |-> input_length]

EntriesOf(rows, max_input_length, max_total_tokens) ==
    [i \in 1..Len(rows) |->
        create_entry(i, rows[i], max_input_length, max_total_tokens)]

(***************************************************************************)
(* The cost next_batch charges for n tokens:                               *)
(*     ((n + block_size - 1) / block_size) * block_size                    *)
(* "/" is Python 3's true division: the quotient is a float, not a floor.  *)
(* The quotient is kept as an exact fraction; multiplying by block_size    *)
(* gives an integral value again (exact in binary floating point for the   *)
(* power of two 16).                                                       *)
(***************************************************************************)
TrueDiv(a, b) == [num |-> a, den |-> b]
TimesInt(q, k) == [num |-> q.num * k, den |-> q.den]
Integral(q) == q.num \div q.den

BlockCost(n, block_size) ==
    Integral(TimesInt(TrueDiv(n + block_size - 1, block_size), block_size))

\* mutant: the requested max_new_tokens are used whatever the window
EffectiveMaxNewUnclamped(entry, window) ==
    entry.request.stopping_parameters.max_new_tokens

\* max_new_tokens as next_batch clamps it (lines 261-267)
EffectiveMaxNew(entry, window) ==
    IF window = None
    THEN entry.request.stopping_parameters.max_new_tokens
    ELSE Min(window[1] - entry.input_length,
             entry.request.stopping_parameters.max_new_tokens)

PrefillCost(entry, block_size) == BlockCost(entry.input_length, block_size)
DecodeCost(entry, block_size, window) ==
    BlockCost(EffectiveMaxNew(entry, window), block_size)

\* the loop condition of next_batch (line 254)
LoopCondition(queue, prefill_tokens, decode_tokens, budget) ==
    queue # <<>> /\ (prefill_tokens + decode_tokens) <= budget

\* mutant: the prefill ceiling is not tested
OverBudgetNoPrefillCheck(prefill_tokens, decode_tokens, max_batch_prefill_tokens, budget) ==
    (prefill_tokens + decode_tokens) > budget

\* mutant: a total equal to the ceiling counts as over budget
OverBudgetOffByOne(prefill_tokens, decode_tokens, max_batch_prefill_tokens, budget) ==
    \/ prefill_tokens >= max_batch_prefill_tokens
    \/ (prefill_tokens + decode_tokens) >= budget

\* the over-budget test of next_batch (line 270)
OverBudget(prefill_tokens, decode_tokens, max_batch_prefill_tokens, budget) ==
    \/ prefill_tokens > max_batch_prefill_tokens
    \/ (prefill_tokens + decode_tokens) > budget

\* mutant: the rejected entry is appended to the back of the queue
RequeueAtEnd(queue, entry) == Append(queue, entry)

\* mutant: the rejected entry is not put back
RequeueDropped(queue, entry) == queue

\* mutant: the rejected entry is put back twice
RequeueTwice(queue, entry) == <<entry, entry>> \o queue

\* entries.insert(0, entry) (line 273)
Requeue(queue, entry) == <<entry>> \o queue

\* mutant: the counter is not advanced
AllocIdSame(id) == id

\* _ID += 1 (line 283)
AllocId(id) == id + 1

(***************************************************************************)
(* The while loop of next_batch.  st holds the function's locals and the   *)
(* queue; charges and requeued record, for each popped entry, what was     *)
(* added to the running totals and which entry was put back.               *)
(***************************************************************************)
RECURSIVE next_batch_loop(_, _, _, _, _)
next_batch_loop(st, max_batch_prefill_tokens, budget, block_size, window) ==
    IF ~LoopCondition(st.entries, st.prefill_tokens, st.decode_tokens, budget)
    THEN st
    ELSE LET entry == Head(st.entries)
             popped == Tail(st.entries)
             pcost == PrefillCost(entry, block_size)
             dcost == DecodeCost(entry, block_size, window)
             p == st.prefill_tokens + pcost
             d == st.decode_tokens + dcost
             charged == Append(st.charges,
                               [entry |-> entry, prefill |-> pcost, decode |-> dcost])
         IN IF OverBudget(p, d, max_batch_prefill_tokens, budget)
            THEN [st EXCEPT !.entries = Requeue(popped, entry),
                            !.prefill_tokens = p,
                            !.decode_tokens = d,
                            !.charges = charged,
                            !.requeued = Some(entry)]
            ELSE next_batch_loop(
                     [st EXCEPT !.entries = popped,
                                !.prefill_tokens = p,
                                !.decode_tokens = d,
                                !.charges = charged,
                                !.batch_requests = Append(@, entry.request)],
                     max_batch_prefill_tokens, budget, block_size, window)

\* next_batch: the queue after the call, the counter after the call and the
\* returned Batch (None when nothing was admitted)
next_batch(queue, id, max_batch_prefill_tokens, budget, block_size, window) ==
    LET st == next_batch_loop(
                  [entries |-> queue, batch_requests |-> <<>>,
                   prefill_tokens |-> 0, decode_tokens |-> 0,
                   charges |-> <<>>, requeued |-> None],
                  max_batch_prefill_tokens, budget, block_size, window)
    IN IF st.batch_requests = <<>>
       THEN [entries |-> st.entries, ID |-> id, result |-> None, st |-> st]
       ELSE [entries |-> st.entries, ID |-> AllocId(id),
             result |-> Some([id |-> id,
                              size |-> Len(st.batch_requests),
                              requests |-> st.batch_requests,
                              max_tokens |-> st.prefill_tokens + st.decode_tokens]),
             st |-> st]

NoCall ==
    [called |-> FALSE, queue_before |-> <<>>, max_batch_prefill_tokens |-> 0,
     token_budget |-> 0, window_size |-> None, result |-> None,
     prefill_tokens |-> 0, decode_tokens |-> 0, charges |-> <<>>,
     requeued |-> None, rejected_before |-> None, alone_before |-> FALSE]

\* One call of next_batch on the pending queue: updates the queue, _ID and
\* the record of the call.
CallNextBatch(max_batch_prefill_tokens, budget, window) ==
    LET r == next_batch(entries, ID, max_batch_prefill_tokens, budget,
                        BLOCK_SIZE, window)
    IN /\ entries' = r.entries
       /\ ID' = r.ID
       /\ last' = [called |-> TRUE,
                   queue_before |-> entries,
                   max_batch_prefill_tokens |-> max_batch_prefill_tokens,
                   token_budget |-> budget,
                   window_size |-> window,
                   result |-> r.result,
                   prefill_tokens |-> r.st.prefill_tokens,
                   decode_tokens |-> r.st.decode_tokens,
                   charges |-> r.st.charges,
                   requeued |-> r.st.requeued,
                   rejected_before |-> last.requeued,
                   alone_before |-> (last.requeued # None /\ last.result = None)]
       /\ returned' = returned \o r.result

(***************************************************************************)
(* The Scheduler on its own: next_batch called repeatedly on a queue, for   *)
(* any prefill ceiling and window size and with any budget at each call.   *)
(***************************************************************************)
SchedInit ==
    /\ pc = "sched"
    /\ args \in [max_input_length : MaxInputLengthValues,
                 max_batch_prefill_tokens : MaxBatchPrefillValues,
                 max_total_tokens : MaxTotalTokensValues]
    /\ dataset \in SeqsUpTo(InputLengths, MaxRows)
    /\ entries = EntriesOf(dataset, args.max_input_length, args.max_total_tokens)
    /\ window_size \in WindowSizeValues
    /\ token_budget = 0
    /\ ID = 0
    /\ warmup_request = None
    /\ batch = None
    /\ new_batch = None
    /\ cached_batch = None
    /\ generations = <<>>
    /\ batches = <<>>
    /\ outputs = NoOutputs
    /\ engine = <<>>
    /\ rpcs = <<>>
    /\ last = NoCall
    /\ returned = <<>>

SchedCall ==
    /\ pc = "sched"
    /\ \E b \in TokenBudgetValues :
           CallNextBatch(args.max_batch_prefill_tokens, b, window_size)
    /\ UNCHANGED <<pc, args, dataset, window_size, token_budget,
                   warmup_request, batch, new_batch, cached_batch, generations,
                   batches, outputs, engine, rpcs>>

SchedNext == SchedCall

SchedSpec == SchedInit /\ [][SchedNext]_vars

(***************************************************************************)
(* warmup: the calibration batch and the WarmupRequest (lines 123-169).    *)
(* The text "_test " * max_input_length is modelled by the pair of the     *)
(* word and its repetition count.                                          *)
(***************************************************************************)
\* mutant: the loop runs once more when the batch is exactly full
RECURSIVE WarmupLoopInclusive(_, _, _, _, _)
WarmupLoopInclusive(n_tokens, requests, max_input_length, max_batch_prefill_tokens, max_total_tokens) ==
    IF ~(n_tokens <= max_batch_prefill_tokens)
    THEN requests
    ELSE LET truncate_length ==
                 Min(max_input_length, max_batch_prefill_tokens - n_tokens)
             request ==
                 [id |-> 0,
                  inputs |-> <<"_test ", max_input_length>>,
                  truncate |-> max_input_length,
                  stopping_parameters |->
                      [max_new_tokens |-> max_total_tokens - truncate_length]]
         IN WarmupLoopInclusive(n_tokens + max_input_length,
                                Append(requests, request), max_input_length,
                                max_batch_prefill_tokens, max_total_tokens)

RECURSIVE warmup_loop(_, _, _, _, _)
warmup_loop(n_tokens, requests, max_input_length, max_batch_prefill_tokens, max_total_tokens) ==
    IF ~(n_tokens < max_batch_prefill_tokens)
    THEN requests
    ELSE LET truncate_length ==
                 Min(max_input_length, max_batch_prefill_tokens - n_tokens)
             request ==
                 [id |-> 0,
                  inputs |-> <<"_test ", max_input_length>>,
                  truncate |-> max_input_length,
                  stopping_parameters |->
                      [max_new_tokens |-> max_total_tokens - truncate_length]]
         IN warmup_loop(n_tokens + max_input_length, Append(requests, request),
                        max_input_length, max_batch_prefill_tokens,
                        max_total_tokens)

WarmupRequest(max_input_length, max_batch_prefill_tokens, max_total_tokens) ==
    LET requests == warmup_loop(0, <<>>, max_input_length,
                                max_batch_prefill_tokens, max_total_tokens)
    IN [batch |-> [id |-> 0, size |-> Len(requests), requests |-> requests,
                   max_tokens |-> 0],
        max_new_tokens |-> max_total_tokens - max_input_length]

(***************************************************************************)
(* add_outputs: outputs is a defaultdict(list) keyed by request id.        *)
(***************************************************************************)
RECURSIVE add_outputs(_, _)
add_outputs(gens, outs) ==
    IF gens = <<>> THEN outs
    ELSE LET g == Head(gens)
             k == g.request_id
             appended ==
                 IF k \in DOMAIN outs
                 THEN [outs EXCEPT ![k] = Append(@, g.generated_text.text)]
                 ELSE [x \in DOMAIN outs \cup {k} |->
                          IF x = k THEN <<g.generated_text.text>> ELSE outs[x]]
         IN add_outputs(Tail(gens), appended)


(***************************************************************************)
(* The engine behind the RPC stub.  Prefill starts generation for a Batch  *)
(* and answers with a CachedBatch handle and one Generation per request;   *)
(* Decode advances the batches named by the handles by one step, merges    *)
(* them into one batch and answers with its handle (None when everything   *)
(* is finished) and one Generation per request.  A fragment is modelled by *)
(* the call that produced it and the row it belongs to.                    *)
(***************************************************************************)
CachedBatchOf(b) ==
    [id |-> b.id,
     request_ids |-> [i \in 1..Len(b.requests) |-> b.requests[i].id],
     size |-> Len(b.requests),
     max_tokens |-> b.max_tokens]

Fragment(call, id, inputs) == <<call, id, inputs>>

GenerationsOf(call, id, requests) ==
    [i \in 1..Len(requests) |->
        [request_id |-> requests[i].id,
         generated_text |-> [text |-> Fragment(call, id, requests[i].inputs)]]]

EnginePrefill(eng, b, steps) ==
    [engine |-> Append(eng, [id |-> b.id, requests |-> b.requests,
                             max_tokens |-> b.max_tokens, remaining |-> steps]),
     batch |-> CachedBatchOf(b),
     generations |-> GenerationsOf("prefill", b.id, b.requests)]

RECURSIVE Flatten(_)
Flatten(ss) == IF ss = <<>> THEN <<>> ELSE Head(ss) \o Flatten(Tail(ss))

MaxOf(S) == CHOOSE x \in S : \A y \in S : y <= x

EngineDecode(eng, handles, call) ==
    LET ids == {handles[i].id : i \in 1..Len(handles)}
        named == SelectSeq(eng, LAMBDA e : e.id \in ids)
        others == SelectSeq(eng, LAMBDA e : e.id \notin ids)
        requests == Flatten([i \in 1..Len(named) |-> named[i].requests])
        left == MaxOf({named[i].remaining : i \in 1..Len(named)} \cup {1}) - 1
        merged == [id |-> handles[1].id,
                   requests |-> requests,
                   max_tokens |-> SumSeq([i \in 1..Len(named) |-> named[i].max_tokens]),
                   remaining |-> left]
    IN [engine |-> IF left = 0 \/ named = <<>> THEN others
                   ELSE Append(others, merged),
        batch |-> IF left = 0 \/ named = <<>> THEN None
                  ELSE Some(CachedBatchOf(merged)),
        generations |-> GenerationsOf("decode", call, requests)]

\* the elements of run()'s list batches: a CachedBatch, or the
\* (CachedBatch, generations) pair that prefill returns
AsHandle(cb) == [kind |-> "CachedBatch", batch |-> cb, generations |-> <<>>]
AsTuple(cb, gens) == [kind |-> "tuple", batch |-> cb, generations |-> gens]

Rpc(name, ids) == [name |-> name, ids |-> ids]

(***************************************************************************)
(* run().                                                                  *)
(***************************************************************************)
Init ==
    /\ pc = "health"
    /\ args \in [max_input_length : MaxInputLengthValues,
                 max_batch_prefill_tokens : MaxBatchPrefillValues,
                 max_total_tokens : MaxTotalTokensValues]
    /\ dataset \in SeqsUpTo(InputLengths, MaxRows)
    /\ entries = <<>>
    /\ window_size = None
    /\ token_budget = 0
    /\ ID = 0
    /\ warmup_request = None
    /\ batch = None
    /\ new_batch = None
    /\ cached_batch = None
    /\ generations = <<>>
    /\ batches = <<>>
    /\ outputs = NoOutputs
    /\ engine = <<>>
    /\ rpcs = <<>>
    /\ last = NoCall
    /\ returned = <<>>

\* client.Health (line 39)
Health ==
    /\ pc = "health"
    /\ rpcs' = Append(rpcs, Rpc("Health", <<>>))
    /\ pc' = "info"
    /\ UNCHANGED <<args, dataset, window_size, token_budget, entries, ID,
                   warmup_request, batch, new_batch, cached_batch, generations,
                   batches, outputs, engine, last, returned>>

\* client.Info (lines 43-44)
Info ==
    /\ pc = "info"
    /\ rpcs' = Append(rpcs, Rpc("Info", <<>>))
    /\ window_size' \in WindowSizeValues
    /\ pc' = "warmup"
    /\ UNCHANGED <<args, dataset, token_budget, entries, ID, warmup_request,
                   batch, new_batch, cached_batch, generations, batches,
                   outputs, engine, last, returned>>

\* warmup (lines 48-53, 117-172) and token_budget = max_supported_total_tokens
Warmup ==
    /\ pc = "warmup"
    /\ warmup_request' = Some(WarmupRequest(args.max_input_length,
                                            args.max_batch_prefill_tokens,
                                            args.max_total_tokens))
    /\ rpcs' = Append(rpcs, Rpc("Warmup", <<>>))
    /\ token_budget' \in CapacityValues
    /\ pc' = "load"
    /\ UNCHANGED <<args, dataset, window_size, entries, ID, batch, new_batch,
                   cached_batch, generations, batches, outputs, engine, last,
                   returned>>

\* loading, tokenizing and converting the rows (lines 58-83);
\* next(iter(dataset)) raises on an input without rows
Load ==
    /\ pc = "load"
    /\ IF dataset = <<>>
       THEN pc' = "failed" /\ UNCHANGED <<entries, outputs>>
       ELSE /\ entries' = EntriesOf(dataset, args.max_input_length,
                                    args.max_total_tokens)
            /\ outputs' = NoOutputs
            /\ pc' = "outer"
    /\ UNCHANGED <<args, dataset, window_size, token_budget, ID, warmup_request,
                   batch, new_batch, cached_batch, generations, batches, engine,
                   rpcs, last, returned>>

\* while batch := next_batch(...) (line 86)
Outer ==
    /\ pc = "outer"
    /\ CallNextBatch(args.max_batch_prefill_tokens, token_budget, window_size)
    /\ batch' = last'.result
    /\ pc' = IF last'.result = None THEN "done" ELSE "prefill"
    /\ UNCHANGED <<args, dataset, window_size, token_budget, warmup_request,
                   new_batch, cached_batch, generations, batches, outputs,
                   engine, rpcs>>

\* cached_batch, generations = prefill(client, batch); batches = [cached_batch];
\* add_outputs(generations, outputs) (lines 88-90)
Prefill ==
    /\ pc = "prefill"
    /\ \E steps \in 1..MaxDecodeSteps :
           LET resp == EnginePrefill(engine, batch[1], steps)
           IN /\ engine' = resp.engine
              /\ cached_batch' = Some(resp.batch)
              /\ generations' = resp.generations
              /\ batches' = <<AsHandle(resp.batch)>>
              /\ outputs' = add_outputs(resp.generations, outputs)
    /\ rpcs' = Append(rpcs, Rpc("Prefill", <<batch[1].id>>))
    /\ pc' = "inner"
    /\ UNCHANGED <<args, dataset, window_size, token_budget, entries, ID,
                   warmup_request, batch, new_batch, last, returned>>

\* mutant: the decode phase follows the inner Scheduler call whatever it returned
InnerAlwaysDecode ==
    /\ pc = "inner"
    /\ CallNextBatch(args.max_batch_prefill_tokens, token_budget, window_size)
    /\ new_batch' = last'.result
    /\ pc' = "decode"
    /\ UNCHANGED <<args, dataset, window_size, token_budget, warmup_request,
                   batch, cached_batch, generations, batches, outputs, engine,
                   rpcs>>

\* mutant: there is no inner admission loop; one batch is prefilled per decode
InnerSkipped ==
    /\ pc = "inner"
    /\ pc' = "decode"
    /\ UNCHANGED <<args, dataset, window_size, token_budget, entries, ID,
                   warmup_request, batch, new_batch, cached_batch, generations,
                   batches, outputs, engine, rpcs, last, returned>>

\* while new_batch := next_batch(...) (line 92)
Inner ==
    /\ pc = "inner"
    /\ CallNextBatch(args.max_batch_prefill_tokens, token_budget, window_size)
    /\ new_batch' = last'.result
    /\ pc' = IF last'.result = None THEN "decode" ELSE "prefill_more"
    /\ UNCHANGED <<args, dataset, window_size, token_budget, warmup_request,
                   batch, cached_batch, generations, batches, outputs, engine,
                   rpcs>>

\* new_cached_batch = prefill(client, new_batch); batches.append(new_cached_batch);
\* add_outputs(generations, outputs) (lines 93-95): the pair prefill returns is
\* appended as it is, and generations is still the first Prefill's
PrefillMore ==
    /\ pc = "prefill_more"
    /\ \E steps \in 1..MaxDecodeSteps :
           LET resp == EnginePrefill(engine, new_batch[1], steps)
               new_cached_batch == AsTuple(resp.batch, resp.generations)
           IN /\ engine' = resp.engine
              /\ batches' = Append(batches, new_cached_batch)
    /\ outputs' = add_outputs(generations, outputs)
    /\ rpcs' = Append(rpcs, Rpc("Prefill", <<new_batch[1].id>>))
    /\ pc' = "inner"
    /\ UNCHANGED <<args, dataset, window_size, token_budget, entries, ID,
                   warmup_request, batch, new_batch, cached_batch, generations,
                   last, returned>>

\* cached_batch, generations = decode(client, batches);
\* add_outputs(generations, outputs) (lines 98-101)
Decode ==
    /\ pc = "decode"
    /\ LET handles == [i \in 1..Len(batches) |-> batches[i].batch]
           resp == EngineDecode(engine, handles, Len(rpcs))
       IN /\ engine' = resp.engine
          /\ cached_batch' = resp.batch
          /\ generations' = resp.generations
          /\ outputs' = add_outputs(resp.generations, outputs)
          /\ rpcs' = Append(rpcs, Rpc("Decode",
                                      [i \in 1..Len(handles) |-> handles[i].id]))
    /\ pc' = "outer"
    /\ UNCHANGED <<args, dataset, window_size, token_budget, entries, ID,
                   warmup_request, batch, new_batch, batches, last, returned>>

RpcName(p) ==
    CASE p = "health" -> "Health"
      [] p = "info" -> "Info"
      [] p = "warmup" -> "Warmup"
      [] p = "prefill" -> "Prefill"
      [] p = "prefill_more" -> "Prefill"
      [] p = "decode" -> "Decode"

\* an RPC raises: the exception leaves run()
RpcFails ==
    /\ pc \in {"health", "info", "warmup", "prefill", "prefill_more", "decode"}
    /\ rpcs' = Append(rpcs, Rpc(RpcName(pc), <<>>))
    /\ pc' = "failed"
    /\ UNCHANGED <<args, dataset, window_size, token_budget, entries, ID,
                   warmup_request, batch, new_batch, cached_batch, generations,
                   batches, outputs, engine, last, returned>>

Next ==
    \/ Health
    \/ Info
    \/ Warmup
    \/ Load
    \/ Outer
    \/ Prefill
    \/ Inner
    \/ PrefillMore
    \/ Decode
    \/ RpcFails

Spec == Init /\ [][Next]_vars

(***************************************************************************)
(* Properties of the Scheduler (next_batch).                               *)
(***************************************************************************)
\* the smallest multiple of block_size that is >= n
CeilBlocks(n, block_size) == ((n + block_size - 1) \div block_size) * block_size

\* the number of requests of the last call's batch (0 when it returned None)
Admitted(l) == IF l.result = None THEN 0 ELSE Len(l.result[1].requests)

\* the entries of the queue, as it was before the call, whose requests are
\* members of the returned batch
MembersOf(l) ==
    IF l.result = None THEN <<>>
    ELSE SelectSeq(l.queue_before,
                   LAMBDA e : \E i \in 1..Len(l.result[1].requests) :
                                  l.result[1].requests[i] = e.request)

PrefillCosts(es) == [i \in 1..Len(es) |-> PrefillCost(es[i], BLOCK_SIZE)]
TotalCosts(es, window) ==
    [i \in 1..Len(es) |-> PrefillCost(es[i], BLOCK_SIZE)
                          + DecodeCost(es[i], BLOCK_SIZE, window)]
CeilPrefillCosts(es) == [i \in 1..Len(es) |-> CeilBlocks(es[i].input_length, BLOCK_SIZE)]

\* C1: the max_tokens of every returned Batch is the sum, over exactly the
\* members of the batch, of the prefill and decode cost charged for them;
\* the cost of an entry that was popped and pushed back is not part of it.
C1_MaxTokensIsMembersCost ==
    (last.called /\ last.result # None) =>
        last.result[1].max_tokens = SumSeq(TotalCosts(MembersOf(last), last.window_size))

\* C2: no returned batch has members whose summed prefill cost (as charged,
\* and a fortiori rounded up to whole blocks) exceeds max_batch_prefill_tokens.
C2_PrefillCeiling ==
    (last.called /\ last.result # None) =>
        /\ SumSeq(PrefillCosts(MembersOf(last))) <= last.max_batch_prefill_tokens
        /\ SumSeq(CeilPrefillCosts(MembersOf(last))) <= last.max_batch_prefill_tokens

\* C2 witness: a batch was returned by a call that stopped at an entry which
\* the prefill ceiling alone rejected.
C2_Witness ==
    /\ last.called /\ last.result # None /\ last.requeued # None
    /\ last.prefill_tokens > last.max_batch_prefill_tokens
    /\ last.prefill_tokens + last.decode_tokens <= last.token_budget

\* C6: the requests of the returned batch are, in order, a prefix of the queue
\* as it was before the call, and the queue after the call is the remaining
\* suffix in its original order (a requeued entry is back at position 0).
C6_PrefixAndSuffix ==
    last.called =>
        LET n == Admitted(last)
        IN /\ n <= Len(last.queue_before)
           /\ \A i \in 1..n : last.result[1].requests[i] = last.queue_before[i].request
           /\ entries = SubSeq(last.queue_before, n + 1, Len(last.queue_before))

\* C6 witness: a call admitted some entries, put one back and left at least
\* two entries queued.
C6_Witness ==
    /\ last.called /\ last.result # None /\ last.requeued # None
    /\ Len(entries) >= 2

\* C7: the ids of the batches returned are strictly increasing.
C7_IdsIncrease ==
    \A i, j \in 1..Len(returned) : i < j => returned[i].id < returned[j].id

\* C7 witness: three batches have been returned.
C7_Witness == Len(returned) >= 3

\* an entry fits a call on its own
FitsAlone(e, l) ==
    /\ 0 <= l.token_budget
    /\ PrefillCost(e, BLOCK_SIZE) <= l.max_batch_prefill_tokens
    /\ PrefillCost(e, BLOCK_SIZE) + DecodeCost(e, BLOCK_SIZE, l.window_size)
           <= l.token_budget

\* C8: an entry a call rejected is back at the front of the queue,
\* unmodified; it is the head of the queue at the next call, which admits it
\* as the first member of its batch if it fits on its own and otherwise
\* puts it back again.
C8_RequeuedThenRetried ==
    /\ last.requeued # None =>
           entries # <<>> /\ Head(entries) = last.requeued[1]
    /\ (last.called /\ last.rejected_before # None) =>
           LET e == last.rejected_before[1]
           IN /\ last.queue_before # <<>> /\ Head(last.queue_before) = e
              /\ IF FitsAlone(e, last)
                 THEN last.result # None /\ last.result[1].requests[1] = e.request
                 ELSE last.result = None /\ last.requeued = Some(e)

\* C8 witness: an entry that exceeded the budget on its own (the call
\* returned None) was admitted by the next call, made with a larger budget.
C8_Witness ==
    /\ last.called /\ last.alone_before /\ last.result # None
    /\ last.result[1].requests[1] = last.rejected_before[1].request

C10_CeilCosts ==
    last.called =>
        \A i \in 1..Len(last.charges) :
            LET c == last.charges[i]
            IN /\ c.prefill = CeilBlocks(c.entry.input_length, BLOCK_SIZE)
               /\ c.decode = CeilBlocks(EffectiveMaxNew(c.entry, last.window_size),
                                        BLOCK_SIZE)

(***************************************************************************)
(* Properties of the orchestrator (run).                                   *)
(***************************************************************************)
\* the declared cost of the batches that were prefilled and are still being
\* generated on the engine
ActiveTokens == SumSeq([i \in 1..Len(engine) |-> engine[i].max_tokens])

\* C3: the summed max_tokens of the batches that were prefilled and are still
\* active on the engine never exceeds token_budget.
C3_ActiveWithinBudget == ActiveTokens <= token_budget

\* C4: when the loop of run exits normally the pending queue is empty and no
\* prefilled batch has generation work left.
C4_ExitMeansAllDone ==
    pc = "done" => (entries = <<>> /\ engine = <<>>)

\* how often fragment f was recorded under key k
Recorded(k, f) ==
    IF k \in DOMAIN outputs
    THEN Cardinality({i \in 1..Len(outputs[k]) : outputs[k][i] = f})
    ELSE 0

\* C5: in the admission phase, after the Prefill of a returned Batch, the
\* CachedBatch handle of each Batch prefilled so far is an element of the
\* active list and each Generation of its Prefill has been recorded in
\* outputs exactly once.
C5_PrefillRecordedOnce ==
    pc = "inner" =>
        \A k \in 1..Len(returned) :
            LET b == returned[k]
            IN /\ \E j \in 1..Len(batches) :
                      batches[j] = AsHandle(CachedBatchOf(b))
               /\ \A i \in 1..Len(b.requests) :
                      Recorded(b.requests[i].id,
                               Fragment("prefill", b.id, b.requests[i].inputs)) = 1

(***************************************************************************)
(* Window clamp (C11).                                                     *)
(***************************************************************************)
\* the entry with its requested max_new_tokens replaced by m
WithMaxNew(e, m) ==
    [e EXCEPT !.request.stopping_parameters.max_new_tokens = m]

Requested(e) == e.request.stopping_parameters.max_new_tokens

\* C11: with window_size = W, an entry of input length L that requests
\* M > W - L new tokens is charged the decode cost of W - L new tokens, not
\* that of M; without a window it is charged the decode cost of M.
C11_WindowClamp ==
    last.called =>
        \A i \in 1..Len(last.charges) :
            LET c == last.charges[i]
                e == c.entry
            IN IF last.window_size = None
               THEN c.decode = BlockCost(Requested(e), BLOCK_SIZE)
               ELSE Requested(e) > last.window_size[1] - e.input_length =>
                        /\ c.decode = BlockCost(last.window_size[1] - e.input_length,
                                                BLOCK_SIZE)
                        /\ c.decode = DecodeCost(
                               WithMaxNew(e, last.window_size[1] - e.input_length),
                               BLOCK_SIZE, None)

\* C11 witness: a call with a window charged an entry that requested more
\* than the window leaves, and the two decode costs differ.
C11_Witness ==
    /\ last.called /\ last.window_size # None
    /\ \E i \in 1..Len(last.charges) :
           LET e == last.charges[i].entry
           IN /\ Requested(e) > last.window_size[1] - e.input_length
              /\ last.charges[i].decode # BlockCost(Requested(e), BLOCK_SIZE)

(***************************************************************************)
(* The first-fit scenario of the Scheduler (C12): three entries whose      *)
(* input lengths round up to 16, 32 and 16 tokens (block_size 16), each    *)
(* requesting 0 new tokens, scheduled with token_budget 48 and no window.  *)
(***************************************************************************)
ScenarioShort == {1, 8, 16}
ScenarioLong == {17, 24, 32}
ScenarioBudgets == {48}
ScenarioPrefillCeilings == {48, 64, 200}

ScenarioInit ==
    /\ pc = "scenario"
    /\ args \in [max_input_length : MaxInputLengthValues,
                 max_batch_prefill_tokens : ScenarioPrefillCeilings,
                 max_total_tokens : MaxTotalTokensValues]
    /\ dataset \in {<<a, b, c>> : a \in ScenarioShort, b \in ScenarioLong,
                                  c \in ScenarioShort}
    /\ entries = [i \in 1..3 |->
                     WithMaxNew(create_entry(i, dataset[i], args.max_input_length,
                                             args.max_total_tokens), 0)]
    /\ window_size = None
    /\ token_budget = 0
    /\ ID = 0
    /\ warmup_request = None
    /\ batch = None
    /\ new_batch = None
    /\ cached_batch = None
    /\ generations = <<>>
    /\ batches = <<>>
    /\ outputs = NoOutputs
    /\ engine = <<>>
    /\ rpcs = <<>>
    /\ last = NoCall
    /\ returned = <<>>

ScenarioCall ==
    /\ pc = "scenario"
    /\ \E b \in ScenarioBudgets :
           CallNextBatch(args.max_batch_prefill_tokens, b, window_size)
    /\ UNCHANGED <<pc, args, dataset, window_size, token_budget,
                   warmup_request, batch, new_batch, cached_batch, generations,
                   batches, outputs, engine, rpcs>>

ScenarioNext == ScenarioCall

ScenarioSpec == ScenarioInit /\ [][ScenarioNext]_vars

\* prefix sums of the charges over the first k entries of a queue
PrefillUpTo(es, k) == SumSeq(PrefillCosts(SubSeq(es, 1, k)))
TotalUpTo(es, k, window) == SumSeq(TotalCosts(SubSeq(es, 1, k), window))

\* a call admits the entries from the head, in order, up to the first one
\* whose addition would exceed max_batch_prefill_tokens or token_budget
C12_FirstFit ==
    (last.called /\ 0 <= last.token_budget) =>
        LET q == last.queue_before
            n == Admitted(last)
        IN /\ \A k \in 1..n :
                  /\ PrefillUpTo(q, k) <= last.max_batch_prefill_tokens
                  /\ TotalUpTo(q, k, last.window_size) <= last.token_budget
           /\ n < Len(q) =>
                  \/ PrefillUpTo(q, n + 1) > last.max_batch_prefill_tokens
                  \/ TotalUpTo(q, n + 1, last.window_size) > last.token_budget

\* C12: a call admits from the head up to the first entry that would exceed
\* a ceiling; in the scenario the first call admits entries 1 and 2 and
\* leaves entry 3 queued, and the second call admits entry 3.
C12_Scenario ==
    /\ C12_FirstFit
    /\ (last.called /\ Len(last.queue_before) = 3) =>
           /\ last.result # None
           /\ last.result[1].requests =
                  <<last.queue_before[1].request, last.queue_before[2].request>>
           /\ entries = <<last.queue_before[3]>>
    /\ (last.called /\ Len(last.queue_before) = 1) =>
           /\ last.result # None
           /\ last.result[1].requests = <<last.queue_before[1].request>>
           /\ entries = <<>>

(***************************************************************************)
(* Calibration (C13, C14, C15).                                            *)
(***************************************************************************)
CeilDiv(a, b) == (a + b - 1) \div b

CountRpc(name) == Cardinality({i \in 1..Len(rpcs) : rpcs[i].name = name})

\* C13: warmup builds exactly ceil(max_batch_prefill_tokens / max_input_length)
\* dummy requests, whose combined (truncated) input length reaches
\* max_batch_prefill_tokens, and sends them in exactly one Warmup call.
C13_WarmupBatch ==
    /\ CountRpc("Warmup") <= 1
    /\ warmup_request # None =>
           LET b == warmup_request[1].batch
               n == CeilDiv(args.max_batch_prefill_tokens, args.max_input_length)
           IN /\ Len(b.requests) = n
              /\ b.size = n
              /\ SumSeq([i \in 1..Len(b.requests) |-> b.requests[i].truncate])
                     >= args.max_batch_prefill_tokens
              /\ (n - 1) * args.max_input_length < args.max_batch_prefill_tokens
              /\ CountRpc("Warmup") = 1

\* C13 witness: the Warmup call of a run with max_batch_prefill_tokens = 64
\* and max_input_length = 16 was sent with 4 requests.
C13_Witness ==
    /\ warmup_request # None
    /\ args.max_batch_prefill_tokens = 64 /\ args.max_input_length = 16
    /\ warmup_request[1].batch.size = 4
    /\ CountRpc("Warmup") = 1

\* C14: every dummy request of the calibration batch has
\* max_new_tokens = max_total_tokens - (the truncate length it carries).
C14_WarmupMaxNew ==
    warmup_request # None =>
        \A i \in 1..Len(warmup_request[1].batch.requests) :
            LET r == warmup_request[1].batch.requests[i]
            IN r.stopping_parameters.max_new_tokens
                   = args.max_total_tokens - r.truncate

\* C15: after a Warmup that reported a capacity <= 0 the run does not
\* complete normally, no batch is returned by the Scheduler and no Prefill or
\* Decode is issued.
C15_NonPositiveCapacityFatal ==
    (warmup_request # None /\ token_budget <= 0) =>
        /\ pc # "done"
        /\ returned = <<>>
        /\ CountRpc("Prefill") = 0
        /\ CountRpc("Decode") = 0

(***************************************************************************)
(* Decode phase and the order of the RPCs (C16, C17).                      *)
(***************************************************************************)
RpcNames == [i \in 1..Len(rpcs) |-> rpcs[i].name]

\* a Decode call has just returned
DecodeReturned ==
    pc = "outer" /\ rpcs # <<>> /\ rpcs[Len(rpcs)].name = "Decode"

\* C16: after a Decode call returns, the active list holds the consolidated
\* CachedBatch that Decode returned and nothing else (it is empty when
\* Decode reported no remaining work).
C16_DecodeReplacesActive ==
    DecodeReturned =>
        batches = IF cached_batch = None THEN <<>>
                  ELSE <<AsHandle(cached_batch[1])>>

\* the RPCs are issued in the order Health, Info, Warmup, then only Prefill
\* and Decode
RpcOrder ==
    \A i \in 1..Len(rpcs) :
        CASE i = 1 -> rpcs[i].name = "Health"
          [] i = 2 -> rpcs[i].name = "Info"
          [] i = 3 -> rpcs[i].name = "Warmup"
          [] OTHER -> rpcs[i].name \in {"Prefill", "Decode"}

\* every Scheduler call of the run was given the calibrated capacity
BudgetPassed == last.called => last.token_budget = token_budget

\* this step issues the RPC called name
Issues(name) ==
    /\ Len(rpcs') = Len(rpcs) + 1
    /\ rpcs'[Len(rpcs')].name = name

\* this step is a Scheduler call that returned None
SchedulerReturnedNone ==
    /\ last'.called /\ last'.result = None
    /\ last'.queue_before = entries /\ entries' = entries
    /\ rpcs' = rpcs

C17_Step ==
    /\ token_budget' # token_budget => Issues("Warmup")
    /\ (pc # "decode" /\ pc' = "decode") => SchedulerReturnedNone
    /\ Issues("Decode") => pc = "decode"
    /\ pc = "decode" => Issues("Decode")

\* C17: the RPCs are issued in the order Health, Info, one Warmup, then
\* Prefill and Decode calls only; the capacity that Warmup returned is the
\* token_budget of every Scheduler call; a Decode call is issued only as
\* the step that follows a Scheduler call that returned None.
C17_RpcOrderAndBudget ==
    /\ [](RpcOrder /\ BudgetPassed)
    /\ [][C17_Step]_vars

\* C17 witness: a run has issued Health, Info, Warmup, two Prefills and the
\* Decode that followed a Scheduler call returning None.
C17_Witness ==
    /\ RpcNames = <<"Health", "Info", "Warmup", "Prefill", "Prefill", "Decode">>
    /\ pc = "outer"
    /\ last.result = None
    /\ token_budget > 0

(***************************************************************************)
(* Admission of every entry (C18).                                         *)
(***************************************************************************)
\* the pending queue as run builds it from the rows
InitialQueue == EntriesOf(dataset, args.max_input_length, args.max_total_tokens)

\* row i was admitted into a batch that was submitted to Prefill
AdmittedAndPrefilled(i) ==
    \E k \in 1..Len(returned) :
        /\ \E j \in 1..Len(returned[k].requests) : returned[k].requests[j].inputs = i
        /\ \E n \in 1..Len(rpcs) : rpcs[n] = Rpc("Prefill", <<returned[k].id>>)

AllAdmitted == \A i \in 1..Len(dataset) : AdmittedAndPrefilled(i)

\* every entry is within both ceilings on its own
AllFitAlone ==
    /\ 0 <= token_budget
    /\ \A i \in 1..Len(InitialQueue) :
           LET e == InitialQueue[i]
           IN /\ PrefillCost(e, BLOCK_SIZE) <= args.max_batch_prefill_tokens
              /\ PrefillCost(e, BLOCK_SIZE) + DecodeCost(e, BLOCK_SIZE, window_size)
                     <= token_budget

StageRank ==
    CASE pc = "health" -> 4
      [] pc = "info" -> 3
      [] pc = "warmup" -> 2
      [] pc = "load" -> 1
      [] pc \in {"prefill", "prefill_more"} -> 4
      [] pc = "inner" -> 3
      [] pc = "decode" -> 2
      [] pc = "outer" -> 1
      [] OTHER -> 0

Rank ==
    IF pc \in {"health", "info", "warmup", "load"}
    THEN 5 * Len(dataset) + 5 + StageRank
    ELSE IF pc \in {"done", "failed"} THEN 0
    ELSE 5 * Len(entries) + StageRank

\* run is at a statement that can execute: the batch a Prefill is about to
\* send exists, and so do the handles a Decode is about to send
CanStep ==
    /\ pc \in {"health", "info", "warmup", "load", "outer", "prefill", "inner",
               "prefill_more", "decode", "done", "failed"}
    /\ pc = "prefill" => batch # None
    /\ pc = "prefill_more" => new_batch # None
    /\ pc = "decode" => batches # <<>>

RequestsOf(es) == [i \in 1..Len(es) |-> es[i].request]

AdmittedRequests == Flatten([k \in 1..Len(returned) |-> returned[k].requests])

\* the queue has been built (and, in run, no statement has raised)
QueueBuilt ==
    pc \in {"sched", "outer", "prefill", "inner", "prefill_more", "decode", "done"}

\* C19: the requests of the batches returned so far, in id order, followed by
\* the pending queue are the initial queue; the queue still holds its entries
\* unmodified; each batch's size is its number of requests and is >= 1.
C19_Conservation ==
    QueueBuilt =>
        /\ AdmittedRequests \o RequestsOf(entries) = RequestsOf(InitialQueue)
        /\ entries = SubSeq(InitialQueue, Len(AdmittedRequests) + 1, Len(InitialQueue))
        /\ \A k \in 1..Len(returned) :
               /\ returned[k].size = Len(returned[k].requests)
               /\ returned[k].size >= 1
               /\ returned[k].id = k - 1

\* C19 witness: two batches have been returned, the last call put an entry
\* back, and that entry is still queued.
C19_Witness ==
    /\ QueueBuilt
    /\ Len(returned) >= 2 /\ entries # <<>>
    /\ last.called /\ last.requeued # None

\* C20: a run issues at most one Decode call: the body of the outer loop
\* (Prefill, inner admission, Decode) is never entered again after a Decode,
\* because the Scheduler call that follows the Decode finds the queue as the
\* last call left it and returns None again.
C20_SingleDecode ==
    /\ CountRpc("Decode") <= 1
    /\ pc \in {"prefill", "inner", "prefill_more", "decode"} => CountRpc("Decode") = 0
    /\ (pc = "done" /\ CountRpc("Decode") = 1) =>
           /\ last.result = None
           /\ last.queue_before = entries
           /\ last.token_budget = token_budget

\* C20 witness: a run completed after its single Decode although a prefilled
\* batch still needs decode steps.
C20_Witness ==
    /\ pc = "done" /\ CountRpc("Decode") = 1
    /\ rpcs[Len(rpcs)].ids # <<>>
    /\ engine # <<>>
    /\ \E i \in 1..Len(engine) : engine[i].remaining >= 1

(***************************************************************************)
(* Request ids and the keys of outputs (C21).                              *)
(***************************************************************************)
\* the input row a recorded fragment belongs to
RowOf(f) == f[3]

RowsUnder(k) == {RowOf(outputs[k][i]) : i \in 1..Len(outputs[k])}

DistinctRequestIds ==
    \A i, j \in 1..Len(entries) :
        i # j => entries[i].request.id # entries[j].request.id

OneRowPerKey == \A k \in DOMAIN outputs : Cardinality(RowsUnder(k)) <= 1

\* C21: the entries created for distinct input rows carry distinct request
\* ids, and every key of outputs holds the fragments of exactly one input
\* row.
C21_DistinctRequestIds ==
    /\ DistinctRequestIds
    /\ OneRowPerKey

====
